---------------------------- MODULE Spec2Model ----------------------------
(***************************************************************************)
(* Simulation engine, simulation clock (animation-frame loop) and reducer  *)
(* store of the logistics routing simulation front end.                    *)
(*                                                                         *)
(* Units.  Progress is held in thousandths (1000 = progress 1.0), exact    *)
(* rational arithmetic standing for the doubles of the code; the inputs    *)
(* are chosen so that every division of the model is exact.  Positions     *)
(* are metres along one axis.  Time is in milliseconds.                    *)
(***************************************************************************)
EXTENDS Integers, Sequences, FiniteSets, Bags, TLC

\* ------------------------------------------------------------------ bounds

MaxParcels == 1
MaxIncidents == 2
MaxInflight == 2
MaxElapsed == 445500
MaxPending == 2
MaxMarks == 2
MaxCalls == 3

ParcelIds == 1..MaxParcels
IncidentIds == 1..MaxIncidents

\* ------------------------------------------------------- numbers of the code

PScale == 1000
DeliveredThreshold == 990
MsPerHour == 3600000
BASE_SPEED == 40
UnroutedSpeed == 30
NoRoute == 0
NaN == -2000000001
NegInf == -2000000000
PosInf == 2000000000
OriginPos == 0
FallbackPos == 4050
HubPos == 20000

Null == "null"
Stamp == "date"

IsFinite(x) == x # NaN /\ x # NegInf /\ x # PosInf

\* x / y of two doubles, the operands finite
Div(x, y) ==
  IF y # 0 THEN x \div y
  ELSE IF x = 0 THEN NaN
  ELSE IF x > 0 THEN PosInf ELSE NegInf

\* x + y of two doubles, y possibly not finite
Add(x, y) ==
  IF x = NaN \/ y = NaN THEN NaN
  ELSE IF x = PosInf /\ y = NegInf THEN NaN
  ELSE IF x = NegInf /\ y = PosInf THEN NaN
  ELSE IF x = PosInf \/ y = PosInf THEN PosInf
  ELSE IF x = NegInf \/ y = NegInf THEN NegInf
  ELSE x + y

\* Math.min(x, y), y finite
MathMin(x, y) ==
  IF x = NaN THEN NaN
  ELSE IF x = PosInf THEN y
  ELSE IF x = NegInf THEN NegInf
  ELSE IF x < y THEN x ELSE y

\* -x of a double
Neg(x) ==
  IF x = NaN THEN NaN
  ELSE IF x = PosInf THEN NegInf
  ELSE IF x = NegInf THEN PosInf
  ELSE -x

\* x < y of two doubles
Less(x, y) == IF x = NaN \/ y = NaN THEN FALSE ELSE x < y

\* x >= y of two doubles, y finite
Geq(x, y) ==
  IF x = NaN \/ x = NegInf THEN FALSE
  ELSE IF x = PosInf THEN TRUE
  ELSE x >= y

\* positions used below: the hub the routes leave from, and a point 5 km on
MidPos == HubPos + 5000

\* ------------------------------------------------- the route collaborator

\* What the routing service can answer: route 1 (10 km) and route 2 (5 km, the
\* answer to a recalculation) are well formed, route 3 has total distance 0,
\* route 4 has a geometry text that names a LINESTRING and holds no coordinates,
\* route 5 a LINESTRING of one point, route 6 a geometry that is no LINESTRING,
\* route 7 no geometry at all.
RouteIds == 1..7

RouteTable ==
  << [id |-> 1, totalDistanceKm |-> 10,
      routeGeometry |-> [present |-> TRUE, linestring |-> TRUE, pts |-> <<HubPos, HubPos + 10000>>]],
     [id |-> 2, totalDistanceKm |-> 5,
      routeGeometry |-> [present |-> TRUE, linestring |-> TRUE, pts |-> <<HubPos, MidPos>>]],
     [id |-> 3, totalDistanceKm |-> 0,
      routeGeometry |-> [present |-> TRUE, linestring |-> TRUE, pts |-> <<HubPos, HubPos>>]],
     [id |-> 4, totalDistanceKm |-> 10,
      routeGeometry |-> [present |-> TRUE, linestring |-> TRUE, pts |-> << >>]],
     [id |-> 5, totalDistanceKm |-> 10,
      routeGeometry |-> [present |-> TRUE, linestring |-> TRUE, pts |-> <<HubPos>>]],
     [id |-> 6, totalDistanceKm |-> 10,
      routeGeometry |-> [present |-> TRUE, linestring |-> FALSE, pts |-> <<HubPos, HubPos + 10000>>]],
     [id |-> 7, totalDistanceKm |-> 10,
      routeGeometry |-> [present |-> FALSE, linestring |-> FALSE, pts |-> << >>]] >>

\* ------------------------------------------------ the geometry collaborator

\* parseWKTLineString: the points of a well-formed LINESTRING text, the empty
\* sequence for any other text
parseWKTLineString(g) ==
  IF g.present /\ g.linestring THEN g.pts ELSE << >>

Abs(x) == IF x < 0 THEN -x ELSE x

\* isWithinRadius(point, center, radiusKm), the radius given here in metres
isWithinRadius(point, center, radiusM) ==
  point # NaN /\ Abs(point - center) <= radiusM

\* interpolateAlongPath(path, progress): the point at that fraction of the path,
\* by linear interpolation inside the segment the fraction falls in
interpolateAlongPath(path, progress) ==
  IF Len(path) = 0 THEN [position |-> OriginPos, segmentIndex |-> 0]
  ELSE IF progress = NaN THEN [position |-> NaN, segmentIndex |-> 0]
  ELSE IF Len(path) = 1 \/ ~Geq(progress, 1) THEN [position |-> path[1], segmentIndex |-> 0]
  ELSE IF Geq(progress, PScale)
    THEN [position |-> path[Len(path)], segmentIndex |-> Len(path) - 1]
  ELSE LET scaled == progress * (Len(path) - 1)
           i == scaled \div PScale
           frac == scaled % PScale
       IN [position |-> path[i + 1] + ((path[i + 2] - path[i + 1]) * frac) \div PScale,
           segmentIndex |-> i]

\* ------------------------------------------------------- simulation engine

\* updateParcelPosition with the increment subtracted instead of added
updateParcelPosition_subtracts(parcel, deltaTimeMs, simulationSpeed) ==
  IF parcel.state # "TRANSIT" \/ parcel.route = NoRoute \/ Len(parcel.routePath) = 0
  THEN parcel
  ELSE
    LET progressIncrement ==
          Div(parcel.speed * simulationSpeed * deltaTimeMs,
              (MsPerHour \div PScale) * RouteTable[parcel.route].totalDistanceKm)
        newProgress == MathMin(Add(parcel.progress, Neg(progressIncrement)), PScale)
        ip == interpolateAlongPath(parcel.routePath, newProgress)
        isDelivered == Geq(newProgress, DeliveredThreshold)
    IN [parcel EXCEPT
          !.currentPosition = ip.position,
          !.progress = newProgress,
          !.pathIndex = ip.segmentIndex,
          !.state = IF isDelivered THEN "DELIVERED" ELSE parcel.state,
          !.actualArrival = IF isDelivered THEN Stamp ELSE parcel.actualArrival]

\* updateParcelPosition delivering only at progress 1 exactly
updateParcelPosition_exactOne(parcel, deltaTimeMs, simulationSpeed) ==
  IF parcel.state # "TRANSIT" \/ parcel.route = NoRoute \/ Len(parcel.routePath) = 0
  THEN parcel
  ELSE
    LET progressIncrement ==
          Div(parcel.speed * simulationSpeed * deltaTimeMs,
              (MsPerHour \div PScale) * RouteTable[parcel.route].totalDistanceKm)
        newProgress == MathMin(Add(parcel.progress, progressIncrement), PScale)
        ip == interpolateAlongPath(parcel.routePath, newProgress)
        isDelivered == Geq(newProgress, PScale)
    IN [parcel EXCEPT
          !.currentPosition = ip.position,
          !.progress = newProgress,
          !.pathIndex = ip.segmentIndex,
          !.state = IF isDelivered THEN "DELIVERED" ELSE parcel.state,
          !.actualArrival = IF isDelivered THEN Stamp ELSE parcel.actualArrival]

\* updateParcelPosition delivering from half the way on
updateParcelPosition_earlyDelivery(parcel, deltaTimeMs, simulationSpeed) ==
  IF parcel.state # "TRANSIT" \/ parcel.route = NoRoute \/ Len(parcel.routePath) = 0
  THEN parcel
  ELSE
    LET progressIncrement ==
          Div(parcel.speed * simulationSpeed * deltaTimeMs,
              (MsPerHour \div PScale) * RouteTable[parcel.route].totalDistanceKm)
        newProgress == MathMin(Add(parcel.progress, progressIncrement), PScale)
        ip == interpolateAlongPath(parcel.routePath, newProgress)
        isDelivered == Geq(newProgress, DeliveredThreshold \div 2)
    IN [parcel EXCEPT
          !.currentPosition = ip.position,
          !.progress = newProgress,
          !.pathIndex = ip.segmentIndex,
          !.state = IF isDelivered THEN "DELIVERED" ELSE parcel.state,
          !.actualArrival = IF isDelivered THEN Stamp ELSE parcel.actualArrival]

\* updateParcelPosition advancing a parcel in any state
updateParcelPosition_anyState(parcel, deltaTimeMs, simulationSpeed) ==
  IF parcel.route = NoRoute \/ Len(parcel.routePath) = 0
  THEN parcel
  ELSE
    LET progressIncrement ==
          Div(parcel.speed * simulationSpeed * deltaTimeMs,
              (MsPerHour \div PScale) * RouteTable[parcel.route].totalDistanceKm)
        newProgress == MathMin(Add(parcel.progress, progressIncrement), PScale)
        ip == interpolateAlongPath(parcel.routePath, newProgress)
        isDelivered == Geq(newProgress, DeliveredThreshold)
    IN [parcel EXCEPT
          !.currentPosition = ip.position,
          !.progress = newProgress,
          !.pathIndex = ip.segmentIndex,
          !.state = IF isDelivered THEN "DELIVERED" ELSE parcel.state,
          !.actualArrival = IF isDelivered THEN Stamp ELSE parcel.actualArrival]

\* updateParcelPosition without the speed multiplier
updateParcelPosition_ignoresMultiplier(parcel, deltaTimeMs, simulationSpeed) ==
  IF parcel.state # "TRANSIT" \/ parcel.route = NoRoute \/ Len(parcel.routePath) = 0
  THEN parcel
  ELSE
    LET progressIncrement ==
          Div(parcel.speed * deltaTimeMs,
              (MsPerHour \div PScale) * RouteTable[parcel.route].totalDistanceKm)
        newProgress == MathMin(Add(parcel.progress, progressIncrement), PScale)
        ip == interpolateAlongPath(parcel.routePath, newProgress)
        isDelivered == Geq(newProgress, DeliveredThreshold)
    IN [parcel EXCEPT
          !.currentPosition = ip.position,
          !.progress = newProgress,
          !.pathIndex = ip.segmentIndex,
          !.state = IF isDelivered THEN "DELIVERED" ELSE parcel.state,
          !.actualArrival = IF isDelivered THEN Stamp ELSE parcel.actualArrival]

updateParcelPosition(parcel, deltaTimeMs, simulationSpeed) ==
  IF parcel.state # "TRANSIT" \/ parcel.route = NoRoute \/ Len(parcel.routePath) = 0
  THEN parcel
  ELSE
    LET actualSpeed == parcel.speed * simulationSpeed
        totalDistanceKm == RouteTable[parcel.route].totalDistanceKm
        \* (actualSpeed * deltaTimeMs / 3600000) / totalDistanceKm, in thousandths
        progressIncrement ==
          Div(actualSpeed * deltaTimeMs, (MsPerHour \div PScale) * totalDistanceKm)
        newProgress == MathMin(Add(parcel.progress, progressIncrement), PScale)
        ip == interpolateAlongPath(parcel.routePath, newProgress)
        isDelivered == Geq(newProgress, DeliveredThreshold)
    IN [parcel EXCEPT
          !.currentPosition = ip.position,
          !.progress = newProgress,
          !.pathIndex = ip.segmentIndex,
          !.state = IF isDelivered THEN "DELIVERED" ELSE parcel.state,
          !.actualArrival = IF isDelivered THEN Stamp ELSE parcel.actualArrival]

InSeq(x, s) == \E k \in 1..Len(s) : s[k] = x

\* Colliding without the test of affectedByIncidents
Colliding_ignoresAffected(parcel, incidents) ==
  SelectSeq(incidents,
    LAMBDA incident :
      /\ ~incident.resolved
      /\ isWithinRadius(parcel.currentPosition, incident.position, incident.radius))

\* Colliding without the test of the resolved flag
Colliding_ignoresResolved(parcel, incidents) ==
  SelectSeq(incidents,
    LAMBDA incident :
      /\ isWithinRadius(parcel.currentPosition, incident.position, incident.radius)
      /\ ~InSeq(incident.id, parcel.affectedByIncidents))

\* the incidents that stop the parcel, in the order of the incident map
Colliding(parcel, incidents) ==
  SelectSeq(incidents,
    LAMBDA incident :
      /\ ~incident.resolved
      /\ isWithinRadius(parcel.currentPosition, incident.position, incident.radius)
      /\ ~InSeq(incident.id, parcel.affectedByIncidents))

\* checkIncidentCollision returning the last such incident
checkIncidentCollision_lastMatch(parcel, incidents) ==
  LET hits == Colliding(parcel, incidents)
  IN IF Len(hits) = 0 THEN << >> ELSE <<hits[Len(hits)]>>

\* checkIncidentCollision: the first such incident as a one-element sequence,
\* the empty sequence for null
checkIncidentCollision(parcel, incidents) ==
  LET hits == Colliding(parcel, incidents)
  IN IF Len(hits) = 0 THEN << >> ELSE <<Head(hits)>>

createSimulatedParcel(id, route, routePath) ==
  [id |-> id,
   route |-> route,
   routePath |-> routePath,
   currentPosition |-> IF Len(routePath) > 0 THEN routePath[1] ELSE OriginPos,
   state |-> "PLANNED",
   progress |-> 0,
   pathIndex |-> 0,
   startTime |-> Null,
   estimatedArrival |-> Stamp,
   actualArrival |-> Null,
   speed |-> BASE_SPEED,
   affectedByIncidents |-> << >>]

EngineStartParcel(parcel) ==
  [parcel EXCEPT !.state = "TRANSIT", !.startTime = Stamp]

\* updateParcelRoute starting the new route from its first point
updateParcelRoute_restarts(parcel, newRoute, newRoutePath) ==
  [parcel EXCEPT
     !.route = newRoute,
     !.routePath = newRoutePath,
     !.currentPosition = interpolateAlongPath(newRoutePath, 0).position,
     !.progress = 0,
     !.state = "TRANSIT",
     !.estimatedArrival = Stamp]

updateParcelRoute(parcel, newRoute, newRoutePath) ==
  [parcel EXCEPT
     !.route = newRoute,
     !.routePath = newRoutePath,
     !.currentPosition = interpolateAlongPath(newRoutePath, parcel.progress).position,
     !.state = "TRANSIT",
     !.estimatedArrival = Stamp]

markParcelIncident(parcel, incidentId) ==
  [parcel EXCEPT
     !.state = "INCIDENT",
     !.affectedByIncidents = Append(parcel.affectedByIncidents, incidentId)]

\* ------------------------------------------------------------- the store

VARIABLES
  state,          \* the reducer's state: parcels, incidents, isPlaying, speed
  rendered,       \* the state of the last render, which the callbacks closed over
  mapsReplaced,   \* a dispatch since the last render put a new Map in the state
  frame,          \* number of pending animation frame requests of simulationLoop
  since,          \* Date.now() - lastUpdateRef.current, in ms
  recalcs,        \* bag of recalculation requests awaiting the routing service
  pending,        \* number of handler runs that dispatched since the last render
  marks,          \* history: how often the loop marked parcel p for incident i
  probe,          \* the arguments of an engine function called on its own
  probeOut        \* what that call returned: << >> before the call, <<value>> after

storeVars == <<state, rendered, mapsReplaced, frame, since, recalcs, pending, marks>>

engineVars == <<probe, probeOut>>

vars == <<state, rendered, mapsReplaced, frame, since, recalcs, pending, marks, probe,
          probeOut>>

initialState ==
  [parcels |-> << >>,
   incidents |-> << >>,
   hubs |-> << >>,
   isPlaying |-> FALSE,
   speed |-> 1,
   incidentPlacementMode |-> FALSE,
   selectedIncidentType |-> Null,
   selectedParcelId |-> Null]

\* the inputs of the user actions and of the clock
Speeds == {1, 2}
TimeSteps == {445500}
IncidentPlacements == {[position |-> MidPos, type |-> "ROAD_CLOSURE"]}
AddRoutes == RouteIds \ {2}
StartPositions == {MidPos, FallbackPos}
RecalcRoutes == {2, 4}

\* a spread that keeps the progress of the existing record
Spread_keepsProgress(existing, updates) ==
  [f \in DOMAIN existing \cup DOMAIN updates |->
     IF f \in DOMAIN updates /\ ~(f = "progress" /\ f \in DOMAIN existing)
     THEN updates[f] ELSE existing[f]]

\* { ...existing, ...updates }
Spread(existing, updates) ==
  [f \in DOMAIN existing \cup DOMAIN updates |->
     IF f \in DOMAIN updates THEN updates[f] ELSE existing[f]]

\* Map.set(key, value) on a map of parcels
MapSet(m, key, value) ==
  [k \in DOMAIN m \cup {key} |-> IF k = key THEN value ELSE m[k]]

IncidentIndex(incidents, id) ==
  IF \E k \in 1..Len(incidents) : incidents[k].id = id
  THEN CHOOSE k \in 1..Len(incidents) : incidents[k].id = id
  ELSE 0

\* Map.set(key, value) on the incident map: a known key keeps its place
IncidentSet(incidents, incident) ==
  LET k == IncidentIndex(incidents, incident.id)
  IN IF k = 0 THEN Append(incidents, incident)
     ELSE [incidents EXCEPT ![k] = incident]

\* the case UPDATE_PARCEL setting the record whether the id is known or not
reduceUpdateParcel_upserts(s, action) ==
  [s EXCEPT !.parcels =
     MapSet(s.parcels, action.payload.id,
            IF action.payload.id \in DOMAIN s.parcels
            THEN Spread(s.parcels[action.payload.id], action.payload.updates)
            ELSE action.payload.updates)]

\* the case UPDATE_PARCEL
reduceUpdateParcel(s, action) ==
  IF action.payload.id \in DOMAIN s.parcels
  THEN [s EXCEPT !.parcels[action.payload.id] =
          Spread(s.parcels[action.payload.id], action.payload.updates)]
  ELSE s

\* the case RESOLVE_INCIDENT putting the parcels the incident stopped back in
\* transit
reduceResolveIncident_resumesParcels(s, action) ==
  LET k == IncidentIndex(s.incidents, action.payload)
  IN IF k = 0 THEN s
     ELSE [s EXCEPT
             !.incidents[k].resolved = TRUE,
             !.parcels =
               [id \in DOMAIN s.parcels |->
                  IF /\ s.parcels[id].state = "INCIDENT"
                     /\ \E j \in 1..Len(s.parcels[id].affectedByIncidents) :
                          s.parcels[id].affectedByIncidents[j] = action.payload
                  THEN [s.parcels[id] EXCEPT !.state = "TRANSIT"]
                  ELSE s.parcels[id]]]

\* the case RESOLVE_INCIDENT
reduceResolveIncident(s, action) ==
  LET k == IncidentIndex(s.incidents, action.payload)
  IN IF k = 0 THEN s ELSE [s EXCEPT !.incidents[k].resolved = TRUE]

simulationReducer(s, action) ==
  CASE action.type = "SET_HUBS" -> [s EXCEPT !.hubs = action.payload]
    [] action.type = "ADD_PARCEL" ->
         [s EXCEPT !.parcels = MapSet(s.parcels, action.payload.id, action.payload)]
    [] action.type = "UPDATE_PARCEL" -> reduceUpdateParcel(s, action)
    [] action.type = "REMOVE_PARCEL" ->
         [s EXCEPT !.parcels =
            [k \in DOMAIN s.parcels \ {action.payload} |-> s.parcels[k]]]
    [] action.type = "ADD_INCIDENT" ->
         [s EXCEPT !.incidents = IncidentSet(s.incidents, action.payload)]
    [] action.type = "RESOLVE_INCIDENT" -> reduceResolveIncident(s, action)
    [] action.type = "PLAY" -> [s EXCEPT !.isPlaying = TRUE]
    [] action.type = "PAUSE" -> [s EXCEPT !.isPlaying = FALSE]
    [] action.type = "SET_SPEED" -> [s EXCEPT !.speed = action.payload]
    [] action.type = "TOGGLE_INCIDENT_MODE" ->
         [s EXCEPT !.incidentPlacementMode = action.payload.active,
                   !.selectedIncidentType = action.payload.type]
    [] action.type = "SELECT_PARCEL" -> [s EXCEPT !.selectedParcelId = action.payload]
    [] action.type = "UPDATE_ALL_PARCELS" -> [s EXCEPT !.parcels = action.payload]
    [] OTHER -> s

\* the action types whose case builds a new Map, so that the memoised loop changes
ReplacesMap(type) ==
  type \in {"ADD_PARCEL", "UPDATE_PARCEL", "REMOVE_PARCEL", "ADD_INCIDENT", "RESOLVE_INCIDENT",
            "UPDATE_ALL_PARCELS"}

dispatch(action) ==
  /\ pending < MaxPending
  /\ state' = simulationReducer(state, action)
  /\ mapsReplaced' = (mapsReplaced \/ ReplacesMap(action.type))
  /\ pending' = pending + 1

\* two dispatches of one handler run
dispatchBoth(first, second) ==
  /\ pending < MaxPending
  /\ state' = simulationReducer(simulationReducer(state, first), second)
  /\ mapsReplaced' = (mapsReplaced \/ ReplacesMap(first.type) \/ ReplacesMap(second.type))
  /\ pending' = pending + 1

NoProbe == [fn |-> "none"]

Init ==
  /\ state = initialState
  /\ rendered = initialState
  /\ mapsReplaced = FALSE
  /\ frame = 0
  /\ since = 0
  /\ recalcs = EmptyBag
  /\ pending = 0
  /\ marks = [p \in ParcelIds, i \in IncidentIds |-> 0]
  /\ probe = NoProbe
  /\ probeOut = << >>

\* ------------------------------------------------------ the simulation loop

\* the parcels of the loop's snapshot that are in transit
InTransit == {id \in DOMAIN rendered.parcels : rendered.parcels[id].state = "TRANSIT"}

Advanced(id) == updateParcelPosition(rendered.parcels[id], since, rendered.speed)

Hit(id) == checkIncidentCollision(Advanced(id), rendered.incidents)

Collided == {id \in InTransit : Len(Hit(id)) > 0}

Marked(id) == markParcelIncident(Advanced(id), Hit(id)[1].id)

\* updated !== parcel: updateParcelPosition built a new object
Moved ==
  {id \in InTransit :
     rendered.parcels[id].route # NoRoute /\ Len(rendered.parcels[id].routePath) > 0}

updatedParcels ==
  [id \in DOMAIN rendered.parcels |->
     IF id \in Collided THEN Marked(id)
     ELSE IF id \in Moved THEN Advanced(id)
     ELSE rendered.parcels[id]]

\* handleIncidentRecalculation issues a request unless the parcel has no route
Request(id) == [parcel |-> Marked(id), incident |-> Hit(id)[1].id]

Requested == {id \in Collided : Marked(id).route # NoRoute}

RECURSIVE BagOfRequests(_)
BagOfRequests(ids) ==
  IF ids = {} THEN EmptyBag
  ELSE LET id == CHOOSE x \in ids : TRUE
       IN SetToBag({Request(id)}) (+) BagOfRequests(ids \ {id})

Bump(n) == IF n < MaxMarks THEN n + 1 ELSE n

simulationLoop ==
  /\ frame > 0
  /\ rendered.isPlaying
  /\ BagCardinality(recalcs) + Cardinality(Requested) <= MaxInflight
  /\ since' = 0
  /\ IF Collided \cup Moved # {}
     THEN dispatch([type |-> "UPDATE_ALL_PARCELS", payload |-> updatedParcels])
     ELSE UNCHANGED <<state, mapsReplaced, pending>>
  /\ recalcs' = recalcs (+) BagOfRequests(Requested)
  /\ marks' = [p \in ParcelIds, i \in IncidentIds |->
                 IF p \in Collided /\ Hit(p)[1].id = i THEN Bump(marks[p, i])
                 ELSE marks[p, i]]
  /\ frame' = (frame - 1) + 1
  /\ UNCHANGED <<rendered, probe, probeOut>>

\* A render after a dispatch: the callbacks close over the new state, and when
\* isPlaying or the memoised loop changed the start/stop effect runs again: its
\* cleanup cancels the pending frame, and it restarts the loop when playing (when
\* paused its own cancel names the request the cleanup has withdrawn already).
EffectDepsChanged ==
  mapsReplaced \/ state.isPlaying # rendered.isPlaying \/ state.speed # rendered.speed

\* cancelAnimationFrame(animationFrameRef.current): the request the ref names,
\* the last one made, is withdrawn if it is still pending
Cancel(n) == IF n > 0 THEN n - 1 ELSE 0

\* the effect's body: a new request when playing
Armed == IF state.isPlaying THEN 1 ELSE 0

\* a render whose effect has no cleanup: the pending request is left in place
Render_keepsFrame ==
  /\ pending > 0
  /\ pending' = 0
  /\ rendered' = state
  /\ mapsReplaced' = FALSE
  /\ frame' = IF ~EffectDepsChanged THEN frame
              ELSE IF state.isPlaying THEN frame + Armed ELSE Cancel(frame)
  /\ since' = IF EffectDepsChanged /\ state.isPlaying THEN 0 ELSE since
  /\ UNCHANGED <<state, recalcs, marks, probe, probeOut>>

\* a render whose effect restarts the loop without resetting lastUpdateRef
Render_keepsReference ==
  /\ pending > 0
  /\ pending' = 0
  /\ rendered' = state
  /\ mapsReplaced' = FALSE
  /\ frame' = IF EffectDepsChanged THEN Cancel(frame) + Armed ELSE frame
  /\ UNCHANGED <<state, since, recalcs, marks, probe, probeOut>>

Render ==
  /\ pending > 0
  /\ pending' = 0
  /\ rendered' = state
  /\ mapsReplaced' = FALSE
  /\ frame' = IF EffectDepsChanged THEN Cancel(frame) + Armed ELSE frame
  /\ since' = IF EffectDepsChanged /\ state.isPlaying THEN 0 ELSE since
  /\ UNCHANGED <<state, recalcs, marks, probe, probeOut>>

\* the wall clock advances, whether the loop runs or not
Elapse(d) ==
  /\ since + d <= MaxElapsed
  /\ since' = since + d
  /\ UNCHANGED <<state, rendered, mapsReplaced, frame, recalcs, pending, marks, probe, probeOut>>

\* ------------------------------------------------------------ user actions

FreshParcelId == CHOOSE id \in ParcelIds :
  id \notin DOMAIN state.parcels /\ \A j \in ParcelIds : j < id => j \in DOMAIN state.parcels

Accepted(route) ==
  LET g == RouteTable[route].routeGeometry
  IN g.present /\ g.linestring /\ Len(parseWKTLineString(g)) >= 2

addParcelRouted(route) ==
  /\ ParcelIds \ DOMAIN state.parcels # {}
  /\ Accepted(route)
  /\ LET simulatedParcel ==
           createSimulatedParcel(FreshParcelId, route,
                                 parseWKTLineString(RouteTable[route].routeGeometry))
     IN dispatch([type |-> "ADD_PARCEL",
                  payload |-> [simulatedParcel EXCEPT !.state = "TRANSIT",
                                                      !.startTime = Stamp]])
  /\ UNCHANGED <<rendered, frame, since, recalcs, marks, probe, probeOut>>

addParcelRejected(route) ==
  /\ ParcelIds \ DOMAIN state.parcels # {}
  /\ ~Accepted(route)
  /\ UNCHANGED vars

addParcelUnrouted(startPos) ==
  /\ ParcelIds \ DOMAIN state.parcels # {}
  /\ dispatch([type |-> "ADD_PARCEL",
               payload |-> [id |-> FreshParcelId,
                            route |-> NoRoute,
                            routePath |-> << >>,
                            currentPosition |-> startPos,
                            state |-> "PLANNED",
                            progress |-> 0,
                            pathIndex |-> 0,
                            startTime |-> Null,
                            estimatedArrival |-> Null,
                            actualArrival |-> Null,
                            speed |-> UnroutedSpeed,
                            affectedByIncidents |-> << >>]])
  /\ UNCHANGED <<rendered, frame, since, recalcs, marks, probe, probeOut>>

startParcel(parcelId) ==
  /\ parcelId \in DOMAIN rendered.parcels
  /\ dispatch([type |-> "UPDATE_PARCEL",
               payload |-> [id |-> parcelId,
                            updates |-> EngineStartParcel(rendered.parcels[parcelId])]])
  /\ UNCHANGED <<rendered, frame, since, recalcs, marks, probe, probeOut>>

\* `incident-${Date.now()}` of a call in a millisecond of its own: a new id
NextIncidentId == Len(state.incidents) + 1

\* `incident-${Date.now()}` of a call in the millisecond of the call before it
LastIncidentId == Len(state.incidents)

TurnOffPlacement ==
  [type |-> "TOGGLE_INCIDENT_MODE", payload |-> [active |-> FALSE, type |-> Null]]

createIncident(position, type) ==
  /\ NextIncidentId \in IncidentIds
  /\ dispatchBoth([type |-> "ADD_INCIDENT",
                   payload |-> [id |-> NextIncidentId,
                                type |-> type,
                                position |-> position,
                                radius |-> IF type = "ROAD_CLOSURE" THEN 500 ELSE 200,
                                resolved |-> FALSE]],
                  TurnOffPlacement)
  /\ UNCHANGED <<rendered, frame, since, recalcs, marks, probe, probeOut>>

\* createIncident called again before Date.now() has changed
createIncidentSameInstant(position, type) ==
  /\ LastIncidentId \in IncidentIds
  /\ dispatchBoth([type |-> "ADD_INCIDENT",
                   payload |-> [id |-> LastIncidentId,
                                type |-> type,
                                position |-> position,
                                radius |-> IF type = "ROAD_CLOSURE" THEN 500 ELSE 200,
                                resolved |-> FALSE]],
                  TurnOffPlacement)
  /\ UNCHANGED <<rendered, frame, since, recalcs, marks, probe, probeOut>>

resolveIncident(incidentId) ==
  /\ dispatch([type |-> "RESOLVE_INCIDENT", payload |-> incidentId])
  /\ UNCHANGED <<rendered, frame, since, recalcs, marks, probe, probeOut>>

play ==
  /\ dispatch([type |-> "PLAY"])
  /\ UNCHANGED <<rendered, frame, since, recalcs, marks, probe, probeOut>>

pause ==
  /\ dispatch([type |-> "PAUSE"])
  /\ UNCHANGED <<rendered, frame, since, recalcs, marks, probe, probeOut>>

setSpeed(speed) ==
  /\ dispatch([type |-> "SET_SPEED", payload |-> speed])
  /\ UNCHANGED <<rendered, frame, since, recalcs, marks, probe, probeOut>>

\* ---------------------------------------------- recalculation completions

RemoveOne(bag, x) == bag (-) SetToBag({x})

\* a completion that is dropped when the simulation is paused
recalcSuccess_droppedWhenPaused(req, newRoute) ==
  /\ BagIn(req, recalcs)
  /\ recalcs' = RemoveOne(recalcs, req)
  /\ IF state.isPlaying
     THEN dispatch([type |-> "UPDATE_PARCEL",
                    payload |->
                      [id |-> req.parcel.id,
                       updates |->
                         updateParcelRoute(req.parcel, newRoute,
                           parseWKTLineString(RouteTable[newRoute].routeGeometry))]])
     ELSE UNCHANGED <<state, mapsReplaced, pending>>
  /\ UNCHANGED <<rendered, frame, since, marks, probe, probeOut>>

\* the routing service answers: the route is decoded, the parcel snapshot taken at
\* the collision is re-anchored, and the result is merged into the store
recalcSuccess(req, newRoute) ==
  /\ BagIn(req, recalcs)
  /\ recalcs' = RemoveOne(recalcs, req)
  /\ dispatch([type |-> "UPDATE_PARCEL",
               payload |->
                 [id |-> req.parcel.id,
                  updates |->
                    updateParcelRoute(req.parcel, newRoute,
                      parseWKTLineString(RouteTable[newRoute].routeGeometry))]])
  /\ UNCHANGED <<rendered, frame, since, marks, probe, probeOut>>

\* the request fails: nothing is dispatched
recalcFailure(req) ==
  /\ BagIn(req, recalcs)
  /\ recalcs' = RemoveOne(recalcs, req)
  /\ UNCHANGED <<state, rendered, mapsReplaced, frame, since, pending, marks, probe, probeOut>>

Next ==
  \/ simulationLoop
  \/ Render
  \/ \E d \in TimeSteps : Elapse(d)
  \/ \E route \in AddRoutes : addParcelRouted(route)
  \/ \E route \in AddRoutes : addParcelRejected(route)
  \/ \E startPos \in StartPositions : addParcelUnrouted(startPos)
  \/ \E parcelId \in ParcelIds : startParcel(parcelId)
  \/ \E pl \in IncidentPlacements : createIncident(pl.position, pl.type)
  \/ \E incidentId \in 1..Len(rendered.incidents) : resolveIncident(incidentId)
  \/ play
  \/ pause
  \/ \E speed \in Speeds : setSpeed(speed)
  \/ \E req \in BagToSet(recalcs), newRoute \in RecalcRoutes : recalcSuccess(req, newRoute)
  \/ \E req \in BagToSet(recalcs) : recalcFailure(req)

Spec == Init /\ [][Next]_vars

\* --------------------------------------- incidents placed in one instant

\* The user picks incident types, places and resolves incidents and React
\* renders, all before the clock advances: Date.now() may or may not have changed between two calls of
\* createIncident.
AllPlacements ==
  {[position |-> p, type |-> ty] : p \in {MidPos, HubPos}, ty \in {"ROAD_CLOSURE", "TRAFFIC"}}

\* the incident types the user picks in the toolbar, and null to leave the mode
ToggleTypes == {"ROAD_CLOSURE", "TRAFFIC", Null}

\* a toggle that turns the mode on whatever the type
toggleIncidentMode_alwaysActive(type) ==
  /\ dispatch([type |-> "TOGGLE_INCIDENT_MODE",
               payload |-> [active |-> TRUE, type |-> type]])
  /\ UNCHANGED <<rendered, frame, since, recalcs, marks, probe, probeOut>>

toggleIncidentMode(type) ==
  /\ dispatch([type |-> "TOGGLE_INCIDENT_MODE",
               payload |-> [active |-> type # Null, type |-> type]])
  /\ UNCHANGED <<rendered, frame, since, recalcs, marks, probe, probeOut>>

NextIncidents ==
  \/ Render
  \/ \E type \in ToggleTypes : toggleIncidentMode(type)
  \/ \E pl \in AllPlacements : createIncident(pl.position, pl.type)
  \/ \E pl \in AllPlacements : createIncidentSameInstant(pl.position, pl.type)
  \/ \E incidentId \in 1..Len(rendered.incidents) : resolveIncident(incidentId)

SpecIncidents == Init /\ [][NextIncidents]_vars

\* ------------------------------------------- parcels without a route, live

\* The user adds parcels without a route, starts them, places incidents and
\* plays; nobody pauses. The runtime's scheduling: a requested animation frame
\* is run, React renders after a dispatch, and the wall clock advances.
NextLive ==
  \/ simulationLoop
  \/ Render
  \/ \E d \in TimeSteps : Elapse(d)
  \/ \E startPos \in StartPositions : addParcelUnrouted(startPos)
  \/ \E parcelId \in ParcelIds : startParcel(parcelId)
  \/ \E pl \in IncidentPlacements : createIncident(pl.position, pl.type)
  \/ play
  \/ \E speed \in Speeds : setSpeed(speed)

SpecLive ==
  /\ Init
  /\ [][NextLive]_vars
  /\ WF_vars(simulationLoop)
  /\ WF_vars(Render)
  /\ WF_vars(\E d \in TimeSteps : Elapse(d))

\* --------------------------------------------- a store that holds a parcel

\* The store after addParcel(parcel, route 1) for a parcel of another id and the
\* render that follows; the user then adds a parcel, plays and pauses, with no
\* incident on the map.
FleetParcelId == MaxParcels + 1

FleetState ==
  [initialState EXCEPT
     !.parcels =
       MapSet(initialState.parcels, FleetParcelId,
              [createSimulatedParcel(FleetParcelId, 1,
                                     parseWKTLineString(RouteTable[1].routeGeometry))
                 EXCEPT !.state = "TRANSIT", !.startTime = Stamp])]

InitFleet ==
  /\ state = FleetState
  /\ rendered = FleetState
  /\ mapsReplaced = FALSE
  /\ frame = 0
  /\ since = 0
  /\ recalcs = EmptyBag
  /\ pending = 0
  /\ marks = [p \in ParcelIds, i \in IncidentIds |-> 0]
  /\ probe = NoProbe
  /\ probeOut = << >>

NextFleet ==
  \/ simulationLoop
  \/ Render
  \/ \E d \in TimeSteps : Elapse(d)
  \/ addParcelRouted(1)
  \/ \E startPos \in StartPositions : addParcelUnrouted(startPos)
  \/ \E parcelId \in ParcelIds : startParcel(parcelId)
  \/ play
  \/ pause

SpecFleet == InitFleet /\ [][NextFleet]_vars

\* ------------------------------------------- engine functions on their own

ParcelStates == {"PLANNED", "TRANSIT", "INCIDENT", "DELIVERED"}
ProbeProgress == {-495, 0, 495, 988, 989, 1000}
ProbeDeltas == {0, 900, 1800, 445500, 900000}
ProbeSpeeds == {-1, 0, 1, 2}
Earlier == "earlier"

\* a parcel on the route, with the route's path or with none (a route whose
\* geometry did not decode); NoRoute for a parcel added without a route
ProbeParcel(route, decoded, st, progress, arrival) ==
  LET path == IF route # NoRoute /\ decoded
              THEN parseWKTLineString(RouteTable[route].routeGeometry) ELSE << >>
  IN [id |-> 1,
      route |-> route,
      routePath |-> path,
      currentPosition |->
        IF route = NoRoute THEN MidPos ELSE interpolateAlongPath(path, progress).position,
      state |-> st,
      progress |-> progress,
      pathIndex |-> 0,
      startTime |-> IF st = "PLANNED" THEN Null ELSE Earlier,
      estimatedArrival |-> IF route = NoRoute THEN Null ELSE Earlier,
      actualArrival |-> arrival,
      speed |-> IF route = NoRoute THEN UnroutedSpeed ELSE BASE_SPEED,
      affectedByIncidents |-> << >>]

ProbeParcels ==
  {ProbeParcel(route, decoded, st, progress, arrival) :
     route \in {NoRoute, 1, 2, 3}, decoded \in BOOLEAN, st \in ParcelStates,
     progress \in ProbeProgress, arrival \in {Null, Earlier}}
  \cup {ProbeParcel(3, TRUE, st, NaN, Null) : st \in {"TRANSIT", "INCIDENT"}}

\* a point 300 m before MidPos
NearMidPos == MidPos - 300

\* incident maps of up to two road closures, around MidPos, 300 m before it, or
\* around the hub
ProbeIncident(id, position, resolved) ==
  [id |-> id, type |-> "ROAD_CLOSURE", position |-> position, radius |-> 500,
   resolved |-> resolved]

ProbeIncidentMaps ==
  {<< >>}
  \cup {<<ProbeIncident(1, p1, r1)>> : p1 \in {MidPos, NearMidPos, HubPos}, r1 \in BOOLEAN}
  \cup {<<ProbeIncident(1, p1, r1), ProbeIncident(2, p2, r2)>> :
          p1 \in {MidPos, NearMidPos, HubPos}, r1 \in BOOLEAN,
          p2 \in {MidPos, NearMidPos, HubPos}, r2 \in BOOLEAN}

\* parcels at the hub and next to MidPos, having met no incident or one of them
CollisionParcels ==
  {[ProbeParcel(1, TRUE, "TRANSIT", progress, Null) EXCEPT !.affectedByIncidents = aff] :
     progress \in {0, 495}, aff \in {<< >>, <<1>>, <<2>>}}

\* stores for the reducer called on its own: with or without a parcel stopped by
\* incident 2, with or without the two incidents, playing or not
StoppedParcel ==
  [ProbeParcel(1, TRUE, "INCIDENT", 495, Null) EXCEPT !.affectedByIncidents = <<2>>]

ProbeStores ==
  {[initialState EXCEPT !.parcels = parcels, !.incidents = incidents,
                        !.isPlaying = playing] :
     parcels \in {initialState.parcels,
                  MapSet(initialState.parcels, StoppedParcel.id, StoppedParcel)},
     incidents \in {<< >>,
                    <<ProbeIncident(1, MidPos, TRUE), ProbeIncident(2, NearMidPos, FALSE)>>},
     playing \in BOOLEAN}

\* one action of each type, and more where the payload decides the case
ProbeActions ==
  {[type |-> "SET_HUBS", payload |-> <<HubPos>>],
   [type |-> "ADD_PARCEL", payload |-> [StoppedParcel EXCEPT !.id = 2]],
   [type |-> "UPDATE_PARCEL",
    payload |-> [id |-> StoppedParcel.id,
                 updates |-> updateParcelRoute(StoppedParcel, 2,
                               parseWKTLineString(RouteTable[2].routeGeometry))]],
   [type |-> "REMOVE_PARCEL", payload |-> StoppedParcel.id],
   [type |-> "ADD_INCIDENT", payload |-> ProbeIncident(1, HubPos, FALSE)],
   [type |-> "ADD_INCIDENT", payload |-> ProbeIncident(3, MidPos, FALSE)],
   [type |-> "RESOLVE_INCIDENT", payload |-> 2],
   [type |-> "RESOLVE_INCIDENT", payload |-> 3],
   [type |-> "PLAY"],
   [type |-> "PAUSE"],
   [type |-> "SET_SPEED", payload |-> 2],
   [type |-> "TOGGLE_INCIDENT_MODE", payload |-> [active |-> TRUE, type |-> "TRAFFIC"]],
   [type |-> "SELECT_PARCEL", payload |-> StoppedParcel.id],
   [type |-> "UPDATE_ALL_PARCELS",
    payload |-> MapSet(initialState.parcels, StoppedParcel.id,
                       [StoppedParcel EXCEPT !.state = "TRANSIT"])],
   [type |-> "RESET"]}

InitEngine ==
  /\ state = initialState
  /\ rendered = initialState
  /\ mapsReplaced = FALSE
  /\ frame = 0
  /\ since = 0
  /\ recalcs = EmptyBag
  /\ pending = 0
  /\ marks = [p \in ParcelIds, i \in IncidentIds |-> 0]
  /\ probe \in {[fn |-> "updateParcelPosition", parcel |-> parcel,
                 deltaTimeMs |-> d, simulationSpeed |-> v] :
                  parcel \in ProbeParcels, d \in ProbeDeltas, v \in ProbeSpeeds}
             \cup {[fn |-> "checkIncidentCollision", parcel |-> parcel,
                    incidents |-> incidents] :
                     parcel \in CollisionParcels, incidents \in ProbeIncidentMaps}
             \cup {[fn |-> "updateParcelRoute", parcel |-> parcel, newRoute |-> r] :
                     parcel \in ProbeParcels, r \in RecalcRoutes}
             \cup {[fn |-> "simulationReducer", s |-> s, actions |-> <<a>>] :
                     s \in ProbeStores, a \in ProbeActions}
             \cup {[fn |-> "simulationReducer", s |-> s, actions |-> <<a, b>>] :
                     s \in ProbeStores, a \in ProbeActions, b \in ProbeActions}
  /\ probeOut = << >>

\* the function is called on the parcel, then again on what it returned
callUpdateParcelPosition ==
  /\ probe.fn = "updateParcelPosition"
  /\ Len(probeOut) < MaxCalls
  /\ probeOut' =
       Append(probeOut,
              updateParcelPosition(IF probeOut = << >> THEN probe.parcel
                                   ELSE probeOut[Len(probeOut)],
                                   probe.deltaTimeMs, probe.simulationSpeed))
  /\ UNCHANGED <<storeVars, probe>>

callCheckIncidentCollision ==
  /\ probe.fn = "checkIncidentCollision"
  /\ probeOut = << >>
  /\ probeOut' = <<checkIncidentCollision(probe.parcel, probe.incidents)>>
  /\ UNCHANGED <<storeVars, probe>>

callUpdateParcelRoute ==
  /\ probe.fn = "updateParcelRoute"
  /\ probeOut = << >>
  /\ probeOut' =
       <<updateParcelRoute(probe.parcel, probe.newRoute,
                           parseWKTLineString(RouteTable[probe.newRoute].routeGeometry))>>
  /\ UNCHANGED <<storeVars, probe>>

\* the reducer is called on the store with the first action, then on what it
\* returned with the next one
callSimulationReducer ==
  /\ probe.fn = "simulationReducer"
  /\ Len(probeOut) < Len(probe.actions)
  /\ probeOut' =
       Append(probeOut,
              simulationReducer(IF probeOut = << >> THEN probe.s
                                ELSE probeOut[Len(probeOut)],
                                probe.actions[Len(probeOut) + 1]))
  /\ UNCHANGED <<storeVars, probe>>

NextEngine ==
  \/ callUpdateParcelPosition
  \/ callCheckIncidentCollision
  \/ callUpdateParcelRoute
  \/ callSimulationReducer

SpecEngine == InitEngine /\ [][NextEngine]_vars

\* ------------------------------------------------------------------ claims

Stored == DOMAIN state.parcels

ProbeDone(fn) == probe.fn = fn /\ Len(probeOut) = 1

\* C1: once a stored parcel is DELIVERED it is DELIVERED in every later store state
\* in which it exists.
C1_DeliveredIsTerminal ==
  [][\A id \in Stored :
       state.parcels[id].state = "DELIVERED" /\ id \in DOMAIN state'.parcels
         => state'.parcels[id].state = "DELIVERED"]_vars

LegalEdges ==
  {<<"PLANNED", "TRANSIT">>, <<"TRANSIT", "INCIDENT">>, <<"INCIDENT", "TRANSIT">>,
   <<"TRANSIT", "DELIVERED">>}

\* C2: whenever a parcel's state differs between two successive store states, the
\* change is PLANNED->TRANSIT, TRANSIT->INCIDENT, INCIDENT->TRANSIT or
\* TRANSIT->DELIVERED.
C2_LegalStateChanges ==
  [][\A id \in Stored \cap DOMAIN state'.parcels :
       state.parcels[id].state # state'.parcels[id].state
         => <<state.parcels[id].state, state'.parcels[id].state>> \in LegalEdges]_vars

\* C3: for every pair of a parcel and an incident, the loop marks that parcel
\* INCIDENT because of that incident at most once.
C3_MarkedAtMostOnce ==
  \A p \in ParcelIds, i \in IncidentIds : marks[p, i] <= 1

\* C4: the stored progress of a parcel never decreases between two successive
\* store states.
C4_ProgressNeverDecreases ==
  [][\A id \in Stored \cap DOMAIN state'.parcels :
       ~Less(state'.parcels[id].progress, state.parcels[id].progress)]_vars

\* C5: a stored parcel with no route is in state PLANNED.
C5_UnroutedStaysPlanned ==
  \A id \in Stored :
    state.parcels[id].route = NoRoute => state.parcels[id].state = "PLANNED"

\* C6: the progress of every stored parcel is a number in [0, 1].
C6_ProgressInRange ==
  \A id \in Stored :
    /\ IsFinite(state.parcels[id].progress)
    /\ state.parcels[id].progress >= 0
    /\ state.parcels[id].progress <= PScale

C7_Applies ==
  /\ ProbeDone("updateParcelPosition")
  /\ probe.parcel.state = "TRANSIT"
  /\ probe.parcel.route # NoRoute
  /\ Len(probe.parcel.routePath) > 0
  /\ probe.deltaTimeMs >= 0
  /\ probe.parcel.speed >= 0
  /\ probe.simulationSpeed >= 0
  /\ RouteTable[probe.parcel.route].totalDistanceKm > 0

\* C7: for a TRANSIT parcel with a route and a non-empty path, deltaTime >= 0,
\* non-negative speed and multiplier and a positive total distance,
\* updateParcelPosition returns a progress >= the progress it was given.
C7_AdvanceMonotone ==
  C7_Applies => Geq(probeOut[1].progress, probe.parcel.progress)

C7_Witness ==
  /\ C7_Applies
  /\ probe.parcel.progress = 495
  /\ probeOut[1].progress = 496

C8_Applies ==
  /\ ProbeDone("updateParcelPosition")
  /\ probe.parcel.state = "TRANSIT"
  /\ Len(probe.parcel.routePath) > 0

\* C8: for a TRANSIT parcel with a non-empty path, updateParcelPosition returns
\* state DELIVERED and a stamped actualArrival if and only if the resulting
\* progress is >= 0.99; below, the state stays TRANSIT and actualArrival is the
\* one given.
C8_DeliveryThreshold ==
  C8_Applies =>
    IF Geq(probeOut[1].progress, DeliveredThreshold)
    THEN probeOut[1].state = "DELIVERED" /\ probeOut[1].actualArrival = Stamp
    ELSE probeOut[1].state = "TRANSIT"
         /\ probeOut[1].actualArrival = probe.parcel.actualArrival

C8_Witness ==
  /\ C8_Applies
  /\ probe.parcel.progress = 989
  /\ probe.parcel.actualArrival = Earlier
  /\ probeOut[1].progress = 991
  /\ probeOut[1].state = "DELIVERED"
  /\ probeOut[1].actualArrival = Stamp

\* C9: every stored parcel whose state is DELIVERED has progress >= 0.99 and an
\* actualArrival.
C9_DeliveredHasArrived ==
  \A id \in Stored :
    state.parcels[id].state = "DELIVERED" =>
      /\ Geq(state.parcels[id].progress, DeliveredThreshold)
      /\ state.parcels[id].actualArrival # Null

C9_Witness ==
  \E id \in Stored :
    /\ state.parcels[id].state = "DELIVERED"
    /\ state.parcels[id].route = 2
    /\ Len(state.parcels[id].affectedByIncidents) > 0
    /\ state.parcels[id].actualArrival = Stamp

\* C10: every stored parcel whose progress is 1 has state DELIVERED.
C10_FullProgressIsDelivered ==
  \A id \in Stored :
    state.parcels[id].progress = PScale => state.parcels[id].state = "DELIVERED"

\* C11: for a parcel that is not in TRANSIT, or has no route, or has an empty
\* path, updateParcelPosition returns the parcel with every field unchanged, for
\* every deltaTime and multiplier, and so does every repetition of the call.
C11_NoOpOutsideTransit ==
  (/\ probe.fn = "updateParcelPosition"
   /\ \/ probe.parcel.state # "TRANSIT"
      \/ probe.parcel.route = NoRoute
      \/ Len(probe.parcel.routePath) = 0)
    => \A k \in 1..Len(probeOut) : probeOut[k] = probe.parcel

C11_Witness ==
  /\ probe.fn = "updateParcelPosition"
  /\ probe.parcel.state = "INCIDENT"
  /\ probe.parcel.route = 1
  /\ Len(probe.parcel.routePath) > 0
  /\ probe.parcel.progress = 495
  /\ probe.deltaTimeMs = 445500
  /\ probe.simulationSpeed = 2
  /\ Len(probeOut) > 1
  /\ probeOut[Len(probeOut)] = probe.parcel

\* C20: checkIncidentCollision never returns a resolved incident, and returns no
\* collision when every incident around the parcel that it has not met is
\* resolved.
C20_ResolvedNeverCollides ==
  ProbeDone("checkIncidentCollision") =>
    /\ \A k \in 1..Len(probeOut[1]) : ~probeOut[1][k].resolved
    /\ (\A k \in 1..Len(probe.incidents) :
          isWithinRadius(probe.parcel.currentPosition, probe.incidents[k].position,
                         probe.incidents[k].radius)
            => probe.incidents[k].resolved)
         => probeOut[1] = << >>

C20_Witness ==
  /\ ProbeDone("checkIncidentCollision")
  /\ Len(probe.incidents) = 2
  /\ probe.parcel.affectedByIncidents = << >>
  /\ probe.incidents[1].resolved
  /\ isWithinRadius(probe.parcel.currentPosition, probe.incidents[1].position,
                    probe.incidents[1].radius)
  /\ ~probe.incidents[2].resolved
  /\ probeOut[1] = <<probe.incidents[2]>>

\* C19: for a TRANSIT parcel on a route of total distance 0, updateParcelPosition
\* makes no movement: progress and state are the ones given and the progress is a
\* finite number, for every deltaTime >= 0.
C19_ZeroDistanceGuard ==
  (/\ ProbeDone("updateParcelPosition")
   /\ probe.parcel.state = "TRANSIT"
   /\ probe.parcel.route # NoRoute
   /\ Len(probe.parcel.routePath) > 0
   /\ RouteTable[probe.parcel.route].totalDistanceKm = 0
   /\ IsFinite(probe.parcel.progress)
   /\ probe.deltaTimeMs >= 0)
    => /\ IsFinite(probeOut[1].progress)
       /\ probeOut[1].progress = probe.parcel.progress
       /\ probeOut[1].state = probe.parcel.state

\* a recalculation request for the parcel awaits its answer
InFlight(id) == \E req \in BagToSet(recalcs) : req.parcel.id = id

\* a routed parcel left in INCIDENT with no request in flight: its request failed
Stuck(id) ==
  /\ id \in Stored
  /\ state.parcels[id].state = "INCIDENT"
  /\ state.parcels[id].route # NoRoute
  /\ ~InFlight(id)

\* C12: a failing recalculation request dispatches nothing, and the parcel it
\* leaves in INCIDENT is left there by every tick, which issues no new request
\* for it either.
C12_FailureLeavesStuck ==
  [][/\ \A req \in BagToSet(recalcs) :
          recalcFailure(req) => state' = state /\ pending' = pending
     /\ simulationLoop =>
          \A id \in Stored :
            Stuck(id) =>
              /\ id \in DOMAIN state'.parcels
              /\ state'.parcels[id].state = "INCIDENT"
              /\ \A req \in BagToSet(recalcs') : req.parcel.id # id]_vars

\* the record updateParcelRoute builds from the snapshot of the request
Reanchored(req, newRoute) ==
  updateParcelRoute(req.parcel, newRoute,
                    parseWKTLineString(RouteTable[newRoute].routeGeometry))

\* C13: when a recalculation succeeds, the record re-anchored from the snapshot
\* taken at the collision replaces the stored record of that id, whatever the
\* stored record's state, route, progress and affectedByIncidents are.
C13_MergeLastWriteWins ==
  [][\A req \in BagToSet(recalcs), newRoute \in RecalcRoutes :
       (recalcSuccess(req, newRoute) /\ req.parcel.id \in Stored)
         => state'.parcels[req.parcel.id] = Reanchored(req, newRoute)]_vars

C13_Witness ==
  \E id \in Stored \cap DOMAIN rendered.parcels :
    /\ rendered.parcels[id].state = "DELIVERED"
    /\ rendered.parcels[id].route = 1
    /\ state.parcels[id].state = "TRANSIT"
    /\ state.parcels[id].route = 2
    /\ state.parcels[id].actualArrival = Null
    /\ Less(state.parcels[id].progress, rendered.parcels[id].progress)

\* C14: while the store's isPlaying is false, no run of the simulation loop
\* changes a parcel.
C14_PauseHaltsTicks ==
  [][(simulationLoop /\ ~state.isPlaying) => state'.parcels = state.parcels]_vars

\* C15: a recalculation that succeeds while isPlaying is false is merged all the
\* same: the parcel is in TRANSIT on the new route and the simulation stays
\* paused.
C15_PauseKeepsRecalculation ==
  [][\A req \in BagToSet(recalcs), newRoute \in RecalcRoutes :
       (/\ recalcSuccess(req, newRoute)
        /\ ~state.isPlaying
        /\ req.parcel.id \in Stored)
         => /\ state'.parcels[req.parcel.id].state = "TRANSIT"
            /\ state'.parcels[req.parcel.id].route = newRoute
            /\ ~state'.isPlaying]_vars

C15_Witness ==
  \E id \in Stored \cap DOMAIN rendered.parcels :
    /\ ~rendered.isPlaying
    /\ ~state.isPlaying
    /\ frame = 0
    /\ rendered.parcels[id].state = "INCIDENT"
    /\ rendered.parcels[id].route = 1
    /\ state.parcels[id].state = "TRANSIT"
    /\ state.parcels[id].route = 2

\* C18: a recalculation answer whose geometry is missing, malformed or decodes
\* to fewer than 2 points leaves the parcel's route, path and state as they
\* were (a route refused by addParcel changes nothing either).
C18_DecodeFailureKeepsState ==
  [][/\ \A route \in AddRoutes : addParcelRejected(route) => state' = state
     /\ \A req \in BagToSet(recalcs), newRoute \in RecalcRoutes :
          (/\ recalcSuccess(req, newRoute)
           /\ ~Accepted(newRoute)
           /\ req.parcel.id \in Stored)
            => /\ state'.parcels[req.parcel.id].route = state.parcels[req.parcel.id].route
               /\ state'.parcels[req.parcel.id].routePath
                    = state.parcels[req.parcel.id].routePath
               /\ state'.parcels[req.parcel.id].state
                    = state.parcels[req.parcel.id].state]_vars

C17_ParcelsNeverDropped ==
  [][DOMAIN state.parcels \subseteq DOMAIN state'.parcels]_vars

\* C21: checkIncidentCollision never returns an incident whose id is in the
\* parcel's affectedByIncidents, unresolved and around the parcel though it be.
C21_TriggeredNeverCollides ==
  ProbeDone("checkIncidentCollision") =>
    \A k \in 1..Len(probeOut[1]) :
      ~InSeq(probeOut[1][k].id, probe.parcel.affectedByIncidents)

C21_Witness ==
  /\ ProbeDone("checkIncidentCollision")
  /\ Len(probe.incidents) = 1
  /\ ~probe.incidents[1].resolved
  /\ isWithinRadius(probe.parcel.currentPosition, probe.incidents[1].position,
                    probe.incidents[1].radius)
  /\ probe.parcel.affectedByIncidents = <<probe.incidents[1].id>>
  /\ probeOut[1] = << >>

\* the places in the incident map of the incidents that can stop the parcel
Candidates ==
  {k \in 1..Len(probe.incidents) :
     /\ ~probe.incidents[k].resolved
     /\ ~InSeq(probe.incidents[k].id, probe.parcel.affectedByIncidents)
     /\ isWithinRadius(probe.parcel.currentPosition, probe.incidents[k].position,
                       probe.incidents[k].radius)}

\* the distance from the parcel to the incident at place k
Distance(k) == Abs(probe.parcel.currentPosition - probe.incidents[k].position)

\* the updated fields of C23 as the spec lists them, and with state
ReanchoredFields == {"currentPosition", "route", "routePath", "estimatedArrival"}

\* C23 as the spec states it: updateParcelRoute returns the progress it was given
\* and changes no field but position, route, path and estimatedArrival.
C23_ReanchorChangesOnlyRoute ==
  ProbeDone("updateParcelRoute") =>
    /\ probeOut[1].progress = probe.parcel.progress
    /\ \A f \in DOMAIN probe.parcel \ ReanchoredFields :
         probeOut[1][f] = probe.parcel[f]

\* C23: updateParcelRoute returns the progress it was given, sets state to
\* TRANSIT, and changes no other field but position, route, path and
\* estimatedArrival.
C23_ReanchorKeepsProgress ==
  ProbeDone("updateParcelRoute") =>
    /\ probeOut[1].progress = probe.parcel.progress
    /\ probeOut[1].state = "TRANSIT"
    /\ probeOut[1].route = probe.newRoute
    /\ \A f \in DOMAIN probe.parcel \ (ReanchoredFields \cup {"state"}) :
         probeOut[1][f] = probe.parcel[f]

C23_Witness ==
  /\ ProbeDone("updateParcelRoute")
  /\ probe.parcel.state = "INCIDENT"
  /\ probe.parcel.route = 1
  /\ probe.parcel.progress = 495
  /\ probe.newRoute = 2
  /\ probeOut[1].progress = 495
  /\ probeOut[1].state = "TRANSIT"
  /\ probeOut[1].currentPosition # probe.parcel.currentPosition

\* C29: for a TRANSIT parcel with a route of positive total distance and a
\* non-empty path, updateParcelPosition returns the progress
\* min(progress + (speed * multiplier * deltaTimeMs / 3600000) / totalDistanceKm, 1);
\* speed 40, distance 10, progress 0, 900000 ms, multiplier 1 give progress 1
\* and DELIVERED.
C29_ProgressIncrement ==
  (/\ ProbeDone("updateParcelPosition")
   /\ probe.parcel.state = "TRANSIT"
   /\ probe.parcel.route # NoRoute
   /\ Len(probe.parcel.routePath) > 0
   /\ RouteTable[probe.parcel.route].totalDistanceKm > 0)
    => LET travelled == probe.parcel.speed * probe.simulationSpeed * probe.deltaTimeMs
           total == RouteTable[probe.parcel.route].totalDistanceKm
           sum == probe.parcel.progress + travelled \div ((MsPerHour \div PScale) * total)
       IN /\ probeOut[1].progress = IF sum < PScale THEN sum ELSE PScale
          /\ (/\ probe.parcel.speed = 40
              /\ total = 10
              /\ probe.parcel.progress = 0
              /\ probe.deltaTimeMs = 900000
              /\ probe.simulationSpeed = 1)
               => probeOut[1].progress = PScale /\ probeOut[1].state = "DELIVERED"

C29_Witness ==
  /\ ProbeDone("updateParcelPosition")
  /\ probe.parcel.state = "TRANSIT"
  /\ probe.parcel.route = 1
  /\ probe.parcel.speed = 40
  /\ probe.parcel.progress = 0
  /\ probe.deltaTimeMs = 900000
  /\ probe.simulationSpeed = 1
  /\ probeOut[1].progress = PScale
  /\ probeOut[1].state = "DELIVERED"

\* C24: an incident id in the store stays in the store, and between two
\* successive store states a stored incident changes in no field but resolved,
\* and there only from false to true.
C24_IncidentLifecycle ==
  [][\A k \in 1..Len(state.incidents) :
       LET j == IncidentIndex(state'.incidents, state.incidents[k].id)
       IN /\ j # 0
          /\ state'.incidents[j] =
               [state.incidents[k] EXCEPT !.resolved = state'.incidents[j].resolved]
          /\ state.incidents[k].resolved => state'.incidents[j].resolved]_vars

\* the store the k-th call of the reducer was given
ReducerIn(k) == IF k = 1 THEN probe.s ELSE probeOut[k - 1]

\* the ids of an incident map in the order of the map
IdsInOrder(incidents) == [k \in 1..Len(incidents) |-> incidents[k].id]

\* C22: among the unresolved incidents around the parcel that it has not met,
\* checkIncidentCollision returns the one that comes first in the incident map,
\* nearest or not; and ADD_INCIDENT under an id the map holds leaves the order of
\* the map as it was.
C22_FirstMatchWins ==
  /\ ProbeDone("checkIncidentCollision") =>
       IF Candidates = {} THEN probeOut[1] = << >>
       ELSE probeOut[1] =
              <<probe.incidents[CHOOSE k \in Candidates : \A j \in Candidates : k <= j]>>
  /\ probe.fn = "simulationReducer" =>
       \A k \in 1..Len(probeOut) :
         (/\ probe.actions[k].type = "ADD_INCIDENT"
          /\ IncidentIndex(ReducerIn(k).incidents, probe.actions[k].payload.id) # 0)
           => IdsInOrder(probeOut[k].incidents) = IdsInOrder(ReducerIn(k).incidents)

C22_Witness ==
  /\ ProbeDone("checkIncidentCollision")
  /\ Candidates = {1, 2}
  /\ Distance(2) < Distance(1)
  /\ probeOut[1] = <<probe.incidents[1]>>

ViewActions ==
  {"SET_HUBS", "PLAY", "PAUSE", "SET_SPEED", "TOGGLE_INCIDENT_MODE", "SELECT_PARCEL"}

IncidentActions == {"ADD_INCIDENT", "RESOLVE_INCIDENT"}

ParcelActions == {"ADD_PARCEL", "UPDATE_PARCEL", "REMOVE_PARCEL", "UPDATE_ALL_PARCELS"}

\* C28: SET_HUBS, PLAY, PAUSE, SET_SPEED, TOGGLE_INCIDENT_MODE and SELECT_PARCEL
\* leave the parcel map and the incident map as they were; ADD_INCIDENT and
\* RESOLVE_INCIDENT leave every parcel as it was; ADD_PARCEL, UPDATE_PARCEL,
\* REMOVE_PARCEL and UPDATE_ALL_PARCELS leave incidents, isPlaying and speed as
\* they were.
C28_ActionsKeepToTheirSlice ==
  probe.fn = "simulationReducer" =>
    \A k \in 1..Len(probeOut) :
      /\ probe.actions[k].type \in ViewActions =>
           /\ probeOut[k].parcels = ReducerIn(k).parcels
           /\ probeOut[k].incidents = ReducerIn(k).incidents
      /\ probe.actions[k].type \in IncidentActions =>
           probeOut[k].parcels = ReducerIn(k).parcels
      /\ probe.actions[k].type \in ParcelActions =>
           /\ probeOut[k].incidents = ReducerIn(k).incidents
           /\ probeOut[k].isPlaying = ReducerIn(k).isPlaying
           /\ probeOut[k].speed = ReducerIn(k).speed

C28_Witness ==
  /\ ProbeDone("simulationReducer")
  /\ probe.actions[1] = [type |-> "RESOLVE_INCIDENT", payload |-> 2]
  /\ StoppedParcel.id \in DOMAIN probe.s.parcels
  /\ Len(probe.s.incidents) = 2
  /\ ~probe.s.incidents[2].resolved
  /\ probeOut[1].incidents[2].resolved
  /\ probeOut[1].parcels[StoppedParcel.id].state = "INCIDENT"

\* C30: UPDATE_PARCEL for an id that is not in the parcel map leaves the parcel
\* map as it was: the completion of a recalculation after REMOVE_PARCEL does not
\* bring the parcel back.
C30_MergeNeverRecreates ==
  probe.fn = "simulationReducer" =>
    \A k \in 1..Len(probeOut) :
      (/\ probe.actions[k].type = "UPDATE_PARCEL"
       /\ probe.actions[k].payload.id \notin DOMAIN ReducerIn(k).parcels)
        => probeOut[k].parcels = ReducerIn(k).parcels

C30_Witness ==
  /\ probe.fn = "simulationReducer"
  /\ Len(probeOut) = 2
  /\ StoppedParcel.id \in DOMAIN probe.s.parcels
  /\ probe.actions[1].type = "REMOVE_PARCEL"
  /\ probe.actions[2].type = "UPDATE_PARCEL"
  /\ probe.actions[2].payload.id = StoppedParcel.id
  /\ StoppedParcel.id \notin DOMAIN probeOut[2].parcels

\* C25: a tick that dispatches its batch has computed it from the parcel map of
\* the store as it is when the tick runs.
C25_TicksUseLatestSnapshot ==
  [][(simulationLoop /\ pending' # pending) => rendered.parcels = state.parcels]_vars

\* C26: a tick issues exactly one recalculation request for each parcel it marks
\* INCIDENT, for that parcel and the incident it met, routed or not.
C26_CollisionSchedulesRecalculation ==
  [][simulationLoop =>
       \A id \in Collided :
         CopiesIn(Request(id), recalcs') = CopiesIn(Request(id), recalcs) + 1]_vars

\* C27: the stored progress of a parcel changes only when the parcel is in
\* TRANSIT, and a tick leaves every stored parcel that is not in TRANSIT as it
\* was.
C27_ProgressOnlyInTransit ==
  [][/\ \A id \in Stored \cap DOMAIN state'.parcels :
          state'.parcels[id].progress # state.parcels[id].progress
            => state.parcels[id].state = "TRANSIT"
     /\ simulationLoop =>
          \A id \in Stored :
            state.parcels[id].state # "TRANSIT"
              => id \in DOMAIN state'.parcels /\ state'.parcels[id] = state.parcels[id]]_vars

\* C31: in every reachable state each parcel has at most one recalculation
\* request that was issued and has not completed yet.
C31_OneRecalculationPerParcel ==
  /\ \A req \in BagToSet(recalcs) : CopiesIn(req, recalcs) = 1
  /\ \A r1, r2 \in BagToSet(recalcs) : r1.parcel.id = r2.parcel.id => r1 = r2

TransitIn(id) == id \in DOMAIN state.parcels /\ state.parcels[id].state = "TRANSIT"

Settled(id) ==
  id \in DOMAIN state.parcels /\ state.parcels[id].state \in {"DELIVERED", "INCIDENT"}

\* C32: when from some point on the simulation stays playing and ticks with a
\* positive time step keep firing, every parcel in TRANSIT eventually becomes
\* DELIVERED or INCIDENT.
C32_DeliveryLiveness ==
  \A id \in ParcelIds :
    (<>[]state.isPlaying /\ []<><<simulationLoop /\ since > 0>>_vars)
      => [](TransitIn(id) => <>Settled(id))

\* C33: in every reachable state at most one animation frame request of the
\* loop is pending, and none is pending once the start/stop effect has run for a
\* render in which the simulation is paused.
C33_SingleScheduledTick ==
  /\ frame <= 1
  /\ ~rendered.isPlaying => frame = 0

\* the loop ran and moved a parcel, and a pause has been rendered since
C33_Witness ==
  /\ ~rendered.isPlaying
  /\ frame = 0
  /\ \E id \in DOMAIN rendered.parcels :
       rendered.parcels[id].state = "TRANSIT" /\ Less(0, rendered.parcels[id].progress)

PlacementConsistent(s) == s.incidentPlacementMode <=> s.selectedIncidentType # Null

Placed ==
  \E pl \in AllPlacements :
    \/ createIncident(pl.position, pl.type)
    \/ createIncidentSameInstant(pl.position, pl.type)

\* C34: in every store state the placement mode is on exactly when an incident
\* type is selected, and createIncident leaves the mode off and the type null.
C34_PlacementModeConsistency ==
  /\ []PlacementConsistent(state)
  /\ [][Placed => (~state'.incidentPlacementMode /\ state'.selectedIncidentType = Null)]_vars

\* an incident was placed while the last render had the mode on
C34_Witness ==
  /\ rendered.incidentPlacementMode
  /\ rendered.selectedIncidentType = "TRAFFIC"
  /\ ~state.incidentPlacementMode
  /\ state.selectedIncidentType = Null
  /\ Len(state.incidents) > Len(rendered.incidents)

=============================================================================
